---- MODULE Spec2Model ----
(***************************************************************************)
(* Model of src/compress.py: the 8 MiB video compressor.                   *)
(*                                                                         *)
(* One run of main() is modelled as a sequential state machine.  The       *)
(* environment (command line, file system, ffprobe, ffmpeg) answers each   *)
(* external call nondeterministically.                                     *)
(*                                                                         *)
(* Arithmetic.  The code computes bitrates in double precision.  Durations *)
(* are carried in milliseconds (info.duration = duration_ms / 1000).  The  *)
(* planner's result is computed in exact integer arithmetic, with          *)
(* SAFETY_MARGIN = 0.03 as 3/100; the double-precision evaluation of lines *)
(* 114-121 gives the same number for every whole-millisecond duration up   *)
(* to one hour.  The corrective step of lines 264-265 is not exact in      *)
(* doubles (216000 at 9 MiB gives 182399, not 182400), so it is evaluated  *)
(* in emulated IEEE 754 doubles.  All machine integers stay below 2^31.    *)
(***************************************************************************)
EXTENDS Integers, Sequences, FiniteSets, TLC

(***************************************************************************)
(* Bounds of the model (not program constants).                            *)
(***************************************************************************)
MaxMinutes == 15          \* probed durations are 1..MaxMinutes whole minutes
MaxOverMiB == 2
MaxSmall == 6
MaxDelta == 3
MaxScale == 12           \* over-budget output sizes 9..8+MaxOverMiB MiB

(***************************************************************************)
(* CONFIG, compress.py lines 15-20.                                        *)
(***************************************************************************)
MiB == 1024 * 1024
TARGET_BYTES == 8 * 1024 * 1024
TARGET_BITS == TARGET_BYTES * 8
AUDIO_BITRATE == 96000
MIN_VIDEO_BITRATE == 80000
SAFETY_MARGIN_PCT == 3    \* SAFETY_MARGIN = 0.03
MAX_ATTEMPTS == 3

(***************************************************************************)
(* Inputs the environment can produce.                                     *)
(***************************************************************************)
Durations == { 60000 * k : k \in 1..MaxMinutes }
OverSizes == { TARGET_BYTES + 1 } \cup { k * MiB : k \in 9..(8 + MaxOverMiB) }
Sizes == { 0, TARGET_BYTES - 1, TARGET_BYTES } \cup OverSizes

Max(a, b) == IF a >= b THEN a ELSE b

(***************************************************************************)
(* Double-precision arithmetic, as Python evaluates lines 264-265.         *)
(*                                                                         *)
(* A natural number of any size is a sequence of limbs in base 2^14, least *)
(* significant first.  A positive double is a pair <<M, E>> standing for   *)
(* M / 2^E, where M is such a number of at most 53 bits (or 2^53 after a   *)
(* rounding carry).  Division and multiplication round to nearest, ties to *)
(* even, as IEEE 754 does.                                                 *)
(*                                                                         *)
(* WithVal(x, Op) is Op(x) with x evaluated once; the recursions are       *)
(* functions for the same reason.                                          *)
(***************************************************************************)
LimbBase == 16384
LimbBits == 14

WithVal(x, Op(_)) == CHOOSE r \in { Op(v) : v \in {x} } : TRUE

Limb(x, k) == IF k <= Len(x) THEN x[k] ELSE 0

\* the limbs of the number whose column sums are s[1], with carry-in s[2]
Carry[s \in Seq(Nat) \X Nat] ==
  IF s[1] = <<>>
    THEN IF s[2] = 0 THEN <<>>
         ELSE <<s[2] % LimbBase>> \o Carry[<<<<>>, s[2] \div LimbBase>>]
    ELSE <<(Head(s[1]) + s[2]) % LimbBase>>
           \o Carry[<<Tail(s[1]), (Head(s[1]) + s[2]) \div LimbBase>>]

BigFromInt(n) == Carry[<<<<n>>, 0>>]

BigToInt(x) ==
  Limb(x, 1) + LimbBase * Limb(x, 2) + LimbBase * LimbBase * Limb(x, 3)

BigAdd(x, y) ==
  Carry[<<[k \in 1..Max(Len(x), Len(y)) |-> Limb(x, k) + Limb(y, k)], 0>>]

RECURSIVE ColSum(_, _, _, _)
ColSum(x, y, k, i) ==
  IF i > k THEN 0 ELSE Limb(x, i) * Limb(y, k + 1 - i) + ColSum(x, y, k, i + 1)

BigMul(x, y) ==
  Carry[<<[k \in 1..(Len(x) + Len(y)) |-> ColSum(x, y, k, 1)], 0>>]

BigPow2(n) ==
  [k \in 1..((n \div LimbBits) + 1) |->
     IF k = (n \div LimbBits) + 1 THEN 2 ^ (n % LimbBits) ELSE 0]

IntBitLen(n) ==
  CHOOSE k \in 0..LimbBits : n < 2 ^ k /\ (k = 0 \/ 2 ^ (k - 1) <= n)

BitLen[x \in Seq(Nat)] ==
  IF x = <<>> THEN 0
  ELSE IF x[Len(x)] = 0 THEN BitLen[SubSeq(x, 1, Len(x) - 1)]
  ELSE LimbBits * (Len(x) - 1) + IntBitLen(x[Len(x)])

\* floor(x / 2^n)
ShiftRight(x, n) ==
  LET w == n \div LimbBits
      r == n % LimbBits
  IN IF Len(x) <= w THEN <<>>
     ELSE [k \in 1..(Len(x) - w) |->
             (x[k + w] \div (2 ^ r))
               + (Limb(x, k + w + 1) % (2 ^ r)) * (2 ^ (LimbBits - r))]

\* x is a multiple of 2^n
LowBitsZero(x, n) ==
  /\ \A k \in 1..(n \div LimbBits) : Limb(x, k) = 0
  /\ Limb(x, (n \div LimbBits) + 1) % (2 ^ (n % LimbBits)) = 0

\* x / 2^n rounded to nearest, ties to even; sticky: x is a truncated value
RoundShift(x, n, sticky) ==
  WithVal(BigAdd(x, BigPow2(n - 1)), LAMBDA s :
    WithVal(ShiftRight(s, n), LAMBDA r :
      IF LowBitsZero(s, n) /\ ~sticky /\ Limb(r, 1) % 2 = 1
        THEN [r EXCEPT ![1] = @ - 1]
        ELSE r))

\* the double nearest to x / 2^e
FlRound(x, e, sticky) ==
  WithVal(BitLen[x] - 53, LAMBDA d :
    IF d <= 0 THEN <<x, e>> ELSE <<RoundShift(x, d, sticky), e - d>>)

FlFromInt(n) == <<BigFromInt(n), 0>>

FlMul(f, g) ==
  WithVal(BigMul(f[1], g[1]), LAMBDA p : FlRound(p, f[2] + g[2], FALSE))

\* <<q, r, n>> with a * 2^n = q * b + r, 0 <= r < b and q of 54 bits,
\* from s = <<q0, r0, b, n0>> with a * 2^n0 = q0 * b + r0
DivLoop[s \in Seq(Nat) \X Nat \X Nat \X Nat] ==
  IF BitLen[s[1]] >= 54 THEN <<s[1], s[2], s[4]>>
  ELSE LET bit == IF 2 * s[2] >= s[3] THEN 1 ELSE 0
       IN DivLoop[<<BigAdd(BigAdd(s[1], s[1]), <<bit>>),
                    2 * s[2] - bit * s[3], s[3], s[4] + 1>>]

\* a / b for integers a, b > 0 (Python's true division)
FlDiv(a, b) ==
  WithVal(DivLoop[<<BigFromInt(a \div b), a % b, b, 0>>], LAMBDA d :
    FlRound(d[1], d[3], d[2] # 0))

\* int(f) for a double f >= 0 below 2^31
FlTrunc(f) == WithVal(f, LAMBDA v : BigToInt(ShiftRight(v[1], v[2])))

(***************************************************************************)
(* calculate_target_bitrate, lines 111-123.                                *)
(*   audio_bits     = AUDIO_BITRATE * duration            if has_audio     *)
(*   available_bits = TARGET_BITS * (1 - SAFETY_MARGIN) - audio_bits       *)
(* available_bits is the integer part (floor) of that value:               *)
(* TARGET_BITS * 97 / 100 = (TARGET_BITS / 4) * 97 / 25 and audio_bits is  *)
(* a whole number for whole-millisecond durations.                         *)
(***************************************************************************)
audio_bits(duration_ms, has_audio) ==
  IF has_audio THEN (AUDIO_BITRATE \div 1000) * duration_ms ELSE 0

available_bits_no_margin(duration_ms, has_audio) ==
  TARGET_BITS - audio_bits(duration_ms, has_audio)

available_bits(duration_ms, has_audio) ==
  (((TARGET_BITS \div 4) * (100 - SAFETY_MARGIN_PCT)) \div 25)
    - audio_bits(duration_ms, has_audio)

(***************************************************************************)
(*   video_bitrate = available_bits / duration                             *)
(*   video_bitrate = max(MIN_VIDEO_BITRATE, floor(video_bitrate/1000)*1000)*)
(* floor(available / duration / 1000) = floor(floor(available)/duration_ms)*)
(***************************************************************************)
calculate_target_bitrate_unclamped(duration_ms, has_audio) ==
  (available_bits(duration_ms, has_audio) \div duration_ms) * 1000

calculate_target_bitrate(duration_ms, has_audio) ==
  Max(MIN_VIDEO_BITRATE,
      (available_bits(duration_ms, has_audio) \div duration_ms) * 1000)

(***************************************************************************)
(* Lines 264-265:                                                          *)
(*   scale_factor = (TARGET_BYTES / out_size) * 0.95                       *)
(*   new_bitrate  = max(MIN_VIDEO_BITRATE, int(video_bitrate*scale_factor))*)
(***************************************************************************)
scale_factor_no_margin(size) == FlDiv(TARGET_BYTES, size)

scale_factor(size) ==
  WithVal(FlDiv(TARGET_BYTES, size), LAMBDA ratio :
    WithVal(FlDiv(95, 100), LAMBDA margin : FlMul(ratio, margin)))

scaled_bitrate(bitrate, size) ==
  WithVal(FlFromInt(bitrate), LAMBDA b :
    WithVal(scale_factor(size), LAMBDA f : FlTrunc(FlMul(b, f))))

new_bitrate_unclamped(bitrate, size) == scaled_bitrate(bitrate, size)

new_bitrate_keeps_current(bitrate, size) ==
  Max(bitrate, scaled_bitrate(bitrate, size))
new_bitrate(bitrate, size) ==
  Max(MIN_VIDEO_BITRATE, scaled_bitrate(bitrate, size))

(***************************************************************************)
(* locate_tool, lines 40-49: the path of the tool, or None.                *)
(***************************************************************************)
locate_tool(name, installed) == IF installed[name] THEN "path" ELSE "none"

(***************************************************************************)
(* The conditions of the control flow.                                     *)
(***************************************************************************)
InputMissing_unchecked(isFile) == FALSE
EncodeFailed_ignored(ok) == FALSE
ExitCode_unclassified(success) == IF success THEN 0 ELSE 1
NoArgs(given) == ~given                                   \* line 280
InputMissing(isFile) == ~isFile                           \* line 284
ToolsMissing(mpeg, probe) == mpeg = "none" \/ probe = "none"   \* line 292
EncodeFailed(ok) == ~ok                                   \* line 242
OutputMissing(exists) == ~exists                          \* line 249
Fits_strict(size) == size < TARGET_BYTES
Fits(size) == size <= TARGET_BYTES                        \* line 257
MoreAttempts_extra(n) == n <= MAX_ATTEMPTS
MoreAttempts_short(n) == n < MAX_ATTEMPTS - 1
MoreAttempts(n) == n < MAX_ATTEMPTS                       \* lines 230, 263
CannotReduce_equal_ok(new, old) == new > old
CannotReduce(new, old) == new >= old                      \* line 267
ExitCode(success) == IF success THEN 0 ELSE 3             \* line 306

(***************************************************************************)
(* ENCODER_PRIORITY, lines 23-27, and detect_encoder, lines 93-108.  The   *)
(* capability query either raises or yields a text; the text is carried as *)
(* the set of encoder names that occur in it, which is all that            *)
(* "codec in available" (line 101) looks at.                               *)
(***************************************************************************)
ENCODER_PRIORITY ==
  << <<"hevc_nvenc", "p5">>, <<"hevc_qsv", "medium">>,
     <<"libx265", "veryfast">> >>

FirstListed_last(listed) ==
  CHOOSE i \in 1..Len(ENCODER_PRIORITY) :
    /\ ENCODER_PRIORITY[i][1] \in listed
    /\ \A j \in (i + 1)..Len(ENCODER_PRIORITY) :
         ENCODER_PRIORITY[j][1] \notin listed
FirstListed(listed) ==                                  \* lines 100-103
  CHOOSE i \in 1..Len(ENCODER_PRIORITY) :
    /\ ENCODER_PRIORITY[i][1] \in listed
    /\ \A j \in 1..(i - 1) : ENCODER_PRIORITY[j][1] \notin listed

detect_encoder(q) ==
  IF q.raised
    THEN <<"libx265", "veryfast">>                      \* lines 105-108
    ELSE IF \E i \in 1..Len(ENCODER_PRIORITY) :
              ENCODER_PRIORITY[i][1] \in q.listed
           THEN ENCODER_PRIORITY[FirstListed(q.listed)]
           ELSE <<"libx265", "veryfast">>               \* line 108

(***************************************************************************)
(* get_video_info, lines 52-90.  A probe response r says whether ffprobe   *)
(* exited with an error (check=True raises), whether its output parses as  *)
(* JSON, whether "streams" is non-empty, the optional stream and format    *)
(* durations in ms, the optional width and height, and the audio query's   *)
(* outcome.  An optional value is the empty set or a singleton.  The       *)
(* result is None, the empty set, or a singleton VideoInfo.                *)
(***************************************************************************)
TheOne(opt) == CHOOSE x \in opt : TRUE
OrDefault(opt, dflt) == IF opt = {} THEN dflt ELSE TheOne(opt)

ProbedDuration(r) ==                                    \* lines 65-69
  IF r.has_stream /\ r.stream_dur # {} THEN r.stream_dur ELSE r.format_dur

DurationRejected_zero_only(d) == d = {} \/ TheOne(d) = 0
DurationRejected(d) == d = {} \/ TheOne(d) <= 0          \* line 71

get_video_info(r) ==
  IF r.tool = "error" \/ r.json = "malformed" THEN {}   \* lines 61-62, 88
  ELSE IF DurationRejected(ProbedDuration(r)) THEN {}   \* lines 71-72
  ELSE IF ~r.has_stream THEN {}                         \* line 75 raises
  ELSE IF r.audio = "malformed" THEN {}                 \* line 84 raises
  ELSE {[duration_ms |-> TheOne(ProbedDuration(r)),
         has_audio |-> (r.audio = "stream"),
         width |-> OrDefault(r.width, 1920),            \* line 76
         height |-> OrDefault(r.height, 1080)]}         \* line 77

(***************************************************************************)
(* What went wrong with a probe response, as seen from outside the code.   *)
(***************************************************************************)
ProbeCause(r) ==
  IF r.tool = "error" THEN "tool_error"
  ELSE IF r.json = "malformed" THEN "malformed"
  ELSE IF ProbedDuration(r) = {} THEN "no_duration"
  ELSE IF TheOne(ProbedDuration(r)) <= 0 THEN "nonpositive"
  ELSE IF ~r.has_stream THEN "no_stream"
  ELSE IF r.audio = "malformed" THEN "audio_malformed"
  ELSE "ok"

(***************************************************************************)
(* get_scale_filter, lines 126-135.                                        *)
(***************************************************************************)
EvenFilter == "scale=trunc(iw/2)*2:trunc(ih/2)*2"
FitFilter ==
  "scale=1920:1080:force_original_aspect_ratio=decrease:force_divisible_by=2"

NoUpscaleNeeded_either(w, h) == w <= 1920 \/ h <= 1080
NoUpscaleNeeded(w, h) == w <= 1920 /\ h <= 1080          \* line 131
get_scale_filter(w, h) ==
  IF NoUpscaleNeeded(w, h) THEN EvenFilter ELSE FitFilter

(***************************************************************************)
(* What the two filter texts of lines 132 and 135 ask of the scale filter. *)
(* The first evaluates trunc(iw/2)*2 and trunc(ih/2)*2.  The second asks   *)
(* for 1920x1080, lets each dimension shrink to the one that keeps the     *)
(* source's aspect ratio (computed to the nearest multiple of 2), and      *)
(* rounds both down to a multiple of 2.                                    *)
(***************************************************************************)
Min(a, b) == IF a <= b THEN a ELSE b
RescaleNearest(a, b, c) == (2 * a * b + c) \div (2 * c)
scale_output(filter, w, h) ==
  IF filter = EvenFilter
    THEN <<(w \div 2) * 2, (h \div 2) * 2>>
    ELSE LET tmp_w == RescaleNearest(1080, w, h * 2) * 2
             tmp_h == RescaleNearest(1920, h, w * 2) * 2
         IN  <<(Min(tmp_w, 1920) \div 2) * 2, (Min(tmp_h, 1080) \div 2) * 2>>

Widths ==
  (1..MaxSmall) \cup { 1920 + k : k \in (-MaxDelta)..MaxDelta }
    \cup { 640 * k : k \in 1..MaxScale }
Heights ==
  (1..MaxSmall) \cup { 1080 + k : k \in (-MaxDelta)..MaxDelta }
    \cup { 360 * k : k \in 1..MaxScale }

(***************************************************************************)
(* The encode command, lines 215-239.  int(video_bitrate * 1.5) is exact:  *)
(* the product has at most one fractional bit and int() drops it.          *)
(***************************************************************************)
audio_args(a) ==                                        \* lines 224-227
  IF a THEN <<"-c:a", "aac", "-b:a", "96k">> ELSE <<"-an">>
NoCmd == [input |-> "unset", vf |-> "unset", cv |-> "unset",
          preset |-> "unset", audio |-> <<>>]
make_base_cmd(vf, cdc, pre, a) ==                       \* lines 215-227
  [input |-> "input_path", vf |-> vf, cv |-> cdc, preset |-> pre,
   audio |-> audio_args(a)]
maxrate_doubled(vb) == 2 * vb
maxrate(vb) == (3 * vb) \div 2                           \* line 235
bufsize(vb) == 2 * vb                                   \* line 236
make_cmd(base, vb) ==                                   \* lines 232-239
  [base |-> base, bv |-> vb, maxrate |-> maxrate(vb),
   bufsize |-> bufsize(vb), output |-> "output_path"]

(***************************************************************************)
(* The responses the external tools can give.                              *)
(***************************************************************************)
EncoderNames ==
  {"hevc_nvenc", "hevc_qsv", "libx265", "libx264", "h264_nvenc", "aac"}
NoQuery == [raised |-> FALSE, listed |-> {}]
CapabilityResponses ==
  {[raised |-> TRUE, listed |-> {}]}
    \cup {[raised |-> FALSE, listed |-> L] : L \in SUBSET EncoderNames}
MainCapabilities ==
  {[raised |-> TRUE, listed |-> {}],
   [raised |-> FALSE, listed |-> {"hevc_qsv", "libx265", "libx264", "aac"}]}

ProbeDims == {<<{}, {}>>, <<{3840}, {2160}>>}
ProbeResponses ==
  { [tool |-> t, json |-> j, has_stream |-> hs, stream_dur |-> sd,
     format_dur |-> fd, width |-> wh[1], height |-> wh[2], audio |-> au] :
      t \in {"ok", "error"}, j \in {"ok", "malformed"}, hs \in BOOLEAN,
      sd \in {{}} \cup {{d} : d \in Durations \cup {0, -60000}},
      fd \in {{}, {0}, {60000}},
      wh \in ProbeDims, au \in {"stream", "none", "malformed"} }

(***************************************************************************)
(* notify, lines 138-172.  The notifier of a run either works (Popen       *)
(* starts the toast), is absent (sys.platform is not win32, line 140) or   *)
(* raises (Popen fails); the bare except of line 171 swallows the failure. *)
(***************************************************************************)
Notifiers == {"works", "absent", "raises"}
notify_shows(n) == n = "works"                          \* lines 140, 164
notify_propagates_uncaught(n) == n = "raises"
notify_propagates(n) == FALSE                           \* lines 141, 171

LoopEnters_empty(last) == last < 1
LoopEnters(last) == 1 <= last           \* line 230: range(1, last + 1)

(***************************************************************************)
(* Lines 254, 259, 269, 274: size_mb = out_size / (1024 * 1024) is exact   *)
(* in a double (a division by 2^20), and "{size_mb:.2f}" prints it rounded *)
(* to two decimals, ties to even.  size_mb is carried as its numerator     *)
(* over 2^20 and the printed text as a count of hundredths of a megabyte.  *)
(***************************************************************************)
format_2f_truncating(bytes) ==
  (bytes \div MiB) * 100 + ((bytes % MiB) * 100) \div MiB
format_2f(bytes) ==
  LET q == (bytes \div MiB) * 100 + ((bytes % MiB) * 100) \div MiB
      r == ((bytes % MiB) * 100) % MiB
  IN  IF 2 * r > MiB \/ (2 * r = MiB /\ q % 2 = 1) THEN q + 1 ELSE q

VARIABLES
  argGiven,       \* len(sys.argv) >= 2
  inputIsFile,    \* os.path.isfile(input_path)
  toolsInstalled, \* what locate_tool can find: [ffmpeg, ffprobe -> BOOLEAN]
  ffmpeg,         \* main's ffmpeg: "unset", "none" (None) or "path"
  ffprobe,        \* main's ffprobe: likewise
  pc,             \* position of the run
  exit,           \* exit code of main, -1 while running
  ret,            \* compress_video's return value: "none", "true", "false"
  duration_ms,    \* info.duration in ms, 0 before the probe
  has_audio,      \* info.has_audio
  video_bitrate,  \* compress_video's video_bitrate, 0 before planning
  attempt,        \* loop variable, 0 before the loop
  out_size,       \* compress_video's out_size, -1 while unassigned
  fileExists,     \* the output path exists on the file system
  fileSize,       \* its size in bytes
  created,        \* an encoder of this run wrote the output file
  log,            \* one record per run_encode call
  notes,          \* the notify calls, in order
  size_mb,        \* compress_video's size_mb times 2^20, -1 while unassigned
  reported,       \* the size printed by the last notification that
                  \* carries one, in hundredths of a MB; -1 if none
  undefinedRead,  \* size_mb was read while unassigned (NameError)
  probe,          \* what the probe response was: "none" before the probe
  width,          \* info.width, 0 before the probe
  height,         \* info.height, 0 before the probe
  scale_filter,   \* compress_video's scale_filter
  codec,          \* compress_video's codec, "unset" before detect_encoder
  preset,         \* compress_video's preset
  query,          \* the capability query's response given to detect_encoder
  base_cmd,       \* compress_video's base_cmd
  notifier,       \* how the platform's notifier behaves in this run
  toasts          \* the notifications that were actually started

vars == <<argGiven, inputIsFile, toolsInstalled, ffmpeg, ffprobe, pc, exit,
          ret, duration_ms,
          has_audio, video_bitrate, attempt, out_size, fileExists,
          fileSize, created, log, notes, size_mb, reported, undefinedRead,
          probe, width, height, scale_filter, codec, preset, query,
          base_cmd, notifier, toasts>>

env == <<argGiven, inputIsFile, toolsInstalled, notifier>>
fs == <<fileExists, fileSize, created>>
plan == <<duration_ms, has_audio, video_bitrate, attempt, out_size>>
report == <<size_mb, reported, undefinedRead>>
video == <<probe, width, height, scale_filter>>
encoder == <<codec, preset, query, base_cmd>>

Init ==
  /\ argGiven \in BOOLEAN
  /\ inputIsFile \in BOOLEAN
  /\ toolsInstalled \in [{"ffmpeg", "ffprobe"} -> BOOLEAN]
  /\ ffmpeg = "unset"
  /\ ffprobe = "unset"
  /\ pc = "main"
  /\ exit = -1
  /\ ret = "none"
  /\ duration_ms = 0
  /\ has_audio = FALSE
  /\ video_bitrate = 0
  /\ attempt = 0
  /\ out_size = -1
  /\ fileExists \in BOOLEAN
  /\ fileSize \in (IF fileExists THEN Sizes ELSE {0})
  /\ created = FALSE
  /\ log = <<>>
  /\ notes = <<>>
  /\ size_mb = -1
  /\ reported = -1
  /\ undefinedRead = FALSE
  /\ probe = "none"
  /\ width = 0
  /\ height = 0
  /\ scale_filter = "unset"
  /\ codec = "unset"
  /\ preset = "unset"
  /\ query = NoQuery
  /\ base_cmd = NoCmd
  /\ notifier \in Notifiers
  /\ toasts = <<>>

(***************************************************************************)
(* One notify call, and where the caller is after it: an exception that    *)
(* left notify would end the program with exit status 1 through line 310.  *)
(***************************************************************************)
Notify(kind) ==
  /\ notes' = Append(notes, kind)
  /\ toasts' = IF notify_shows(notifier) THEN Append(toasts, kind) ELSE toasts
Goes(p) == pc' = IF notify_propagates(notifier) THEN "done" ELSE p
Exits(e) == exit' = IF notify_propagates(notifier) THEN 1 ELSE e

(***************************************************************************)
(* main, lines 280-281: no argument.                                       *)
(***************************************************************************)
MainNoArgs ==
  /\ pc = "main"
  /\ NoArgs(argGiven)
  /\ pc' = "done"
  /\ exit' = 0
  /\ UNCHANGED <<env, ffmpeg, ffprobe, ret, plan, fs, log, notes, toasts, report,
                 video, encoder>>

(***************************************************************************)
(* main, lines 283-286: the input path is not a file.                      *)
(***************************************************************************)
MainFileNotFound ==
  /\ pc = "main"
  /\ ~NoArgs(argGiven)
  /\ InputMissing(inputIsFile)
  /\ Notify("FileNotFound")
  /\ Goes("done")
  /\ Exits(1)
  /\ UNCHANGED <<env, ffmpeg, ffprobe, ret, plan, fs, log, report, video, encoder>>

(***************************************************************************)
(* main, lines 283-301: the input is a file; locate_tool is called twice;  *)
(* either exit 2 or the start notification and the call of compress_video. *)
(***************************************************************************)
MainLocateTools ==
  /\ pc = "main"
  /\ ~NoArgs(argGiven)
  /\ ~InputMissing(inputIsFile)
  /\ ffmpeg' = locate_tool("ffmpeg", toolsInstalled)
  /\ ffprobe' = locate_tool("ffprobe", toolsInstalled)
  /\ IF ToolsMissing(ffmpeg', ffprobe')
       THEN /\ Notify("FFmpegNotFound")
            /\ Goes("done")
            /\ Exits(2)
       ELSE /\ Notify("Starting")
            /\ Goes("compress")
            /\ Exits(exit)
  /\ UNCHANGED <<env, ret, plan, fs, log, report, video, encoder>>

(***************************************************************************)
(* compress_video, lines 202-205: get_video_info returns None.             *)
(***************************************************************************)
ProbeFails ==
  /\ pc = "compress"
  /\ \E r \in ProbeResponses :
       /\ get_video_info(r) = {}
       /\ probe' = ProbeCause(r)
  /\ Notify("CouldNotAnalyze")
  /\ ret' = "false"
  /\ Goes("returned")
  /\ Exits(exit)
  /\ UNCHANGED <<env, ffmpeg, ffprobe, plan, fs, log, report,
                 width, height, scale_filter, encoder>>

(***************************************************************************)
(* compress_video, lines 202-230: get_video_info returns a VideoInfo with  *)
(* duration > 0; the initial bitrate is planned and the loop is entered.   *)
(***************************************************************************)
ProbeAndPlan ==
  /\ pc = "compress"
  /\ \E r \in ProbeResponses, q \in MainCapabilities :
       /\ get_video_info(r) # {}
       /\ LET info == TheOne(get_video_info(r))
          IN  /\ probe' = ProbeCause(r)
              /\ duration_ms' = info.duration_ms
              /\ has_audio' = info.has_audio
              /\ width' = info.width
              /\ height' = info.height
              /\ query' = q                                    \* line 208
              /\ codec' = detect_encoder(q)[1]
              /\ preset' = detect_encoder(q)[2]
              /\ video_bitrate' =                              \* line 211
                   calculate_target_bitrate(info.duration_ms, info.has_audio)
              /\ scale_filter' =                               \* line 212
                   get_scale_filter(info.width, info.height)
              /\ base_cmd' = make_base_cmd(scale_filter', codec', preset',
                                           info.has_audio)
  /\ IF LoopEnters(MAX_ATTEMPTS)
       THEN /\ attempt' = 1
            /\ pc' = "encode"
            /\ UNCHANGED <<exit, undefinedRead>>
       ELSE \* line 274 formats size_mb, which no iteration has assigned:
            \* the NameError ends the program through line 310
            /\ undefinedRead' = TRUE
            /\ attempt' = 0
            /\ pc' = "done"
            /\ exit' = 1
  /\ UNCHANGED <<env, ffmpeg, ffprobe, ret, out_size, fs, log, notes, toasts,
                 size_mb, reported>>

(***************************************************************************)
(* compress_video, lines 232-246: one run_encode call.  The encoder        *)
(* reports success or failure and may or may not write the output file.    *)
(***************************************************************************)
RunEncode ==
  /\ pc = "encode"
  /\ \E ok \in BOOLEAN, wrote \in BOOLEAN :
       /\ log' = Append(log, [attempt |-> attempt, bitrate |-> video_bitrate,
                              ok |-> ok, exists |-> "na", size |-> -1,
                              cmd |-> make_cmd(base_cmd, video_bitrate)])
       /\ IF wrote
            THEN /\ fileExists' = TRUE
                 /\ fileSize' \in Sizes
                 /\ created' = TRUE
            ELSE UNCHANGED fs
       /\ IF EncodeFailed(ok)
            THEN /\ Notify("EncodingFailed")
                 /\ ret' = "false"
                 /\ Goes("returned")
                 /\ Exits(exit)
            ELSE /\ UNCHANGED <<notes, toasts, exit>>
                 /\ ret' = ret
                 /\ pc' = "exists"
  /\ UNCHANGED <<env, ffmpeg, ffprobe, plan, report, video, encoder>>

(***************************************************************************)
(* compress_video, lines 249-251: os.path.exists(output_path).             *)
(***************************************************************************)
CheckOutput ==
  /\ pc = "exists"
  /\ log' = [log EXCEPT ![Len(log)].exists =
                          IF fileExists THEN "yes" ELSE "no"]
  /\ IF OutputMissing(fileExists)
       THEN /\ Notify("OutputNotCreated")
            /\ ret' = "false"
            /\ Goes("returned")
            /\ Exits(exit)
       ELSE /\ UNCHANGED <<notes, toasts, exit>>
            /\ ret' = ret
            /\ pc' = "getsize"
  /\ UNCHANGED <<env, ffmpeg, ffprobe, plan, fs, report, video, encoder>>

(***************************************************************************)
(* compress_video, lines 253-275: the size is measured; success, a retry   *)
(* with a smaller bitrate, "cannot reduce further", or attempts exhausted. *)
(***************************************************************************)
MeasureSize ==
  /\ pc = "getsize"
  /\ out_size' = fileSize
  /\ size_mb' = out_size'
  /\ log' = [log EXCEPT ![Len(log)].size = fileSize]
  /\ IF Fits(fileSize)
       THEN /\ Notify("Complete")
            /\ reported' = format_2f(size_mb')
            /\ ret' = "true"
            /\ Goes("returned")
            /\ Exits(exit)
            /\ UNCHANGED <<video_bitrate, attempt>>
       ELSE IF MoreAttempts(attempt)
         THEN IF CannotReduce(new_bitrate(video_bitrate, fileSize),
                              video_bitrate)
                THEN /\ Notify("CannotReduce")
                     /\ reported' = format_2f(size_mb')
                     /\ ret' = "false"
                     /\ Goes("returned")
                     /\ Exits(exit)
                     /\ UNCHANGED <<video_bitrate, attempt>>
                ELSE /\ video_bitrate' = new_bitrate(video_bitrate, fileSize)
                     /\ attempt' = attempt + 1
                     /\ pc' = "encode"
                     /\ UNCHANGED <<notes, toasts, exit, ret, reported>>
         ELSE /\ Notify("TargetWas8MB")
              /\ reported' = format_2f(size_mb')
              /\ ret' = "false"
              /\ Goes("returned")
              /\ Exits(exit)
              /\ UNCHANGED <<video_bitrate, attempt>>
  /\ UNCHANGED <<env, ffmpeg, ffprobe, duration_ms, has_audio, fs,
                 undefinedRead, video, encoder>>

(***************************************************************************)
(* main, lines 304-306: compress_video has returned.                       *)
(***************************************************************************)
MainExit ==
  /\ pc = "returned"
  /\ exit' = ExitCode(ret = "true")
  /\ pc' = "done"
  /\ UNCHANGED <<env, ffmpeg, ffprobe, ret, plan, fs, log, notes, toasts, report,
                 video, encoder>>

Next ==
  \/ MainNoArgs
  \/ MainFileNotFound
  \/ MainLocateTools
  \/ ProbeFails
  \/ ProbeAndPlan
  \/ RunEncode
  \/ CheckOutput
  \/ MeasureSize
  \/ MainExit

Spec == Init /\ [][Next]_vars

(***************************************************************************)
(* Every external call returns: a run that can take a step takes it.       *)
(***************************************************************************)
FairSpec == Spec /\ WF_vars(Next)

(***************************************************************************)
(* detect_encoder and get_scale_filter on their own: each is applied once  *)
(* to an input drawn from all capability responses, or from all the source *)
(* dimensions, with the rest of the program at rest.                       *)
(***************************************************************************)
AtRest ==
  /\ argGiven = FALSE
  /\ inputIsFile = FALSE
  /\ toolsInstalled = [t \in {"ffmpeg", "ffprobe"} |-> FALSE]
  /\ ffmpeg = "unset"
  /\ ffprobe = "unset"
  /\ exit = -1
  /\ ret = "none"
  /\ duration_ms = 0
  /\ has_audio = FALSE
  /\ video_bitrate = 0
  /\ attempt = 0
  /\ out_size = -1
  /\ fileExists = FALSE
  /\ fileSize = 0
  /\ created = FALSE
  /\ log = <<>>
  /\ notes = <<>>
  /\ size_mb = -1
  /\ reported = -1
  /\ undefinedRead = FALSE
  /\ probe = "none"
  /\ scale_filter = "unset"
  /\ codec = "unset"
  /\ preset = "unset"
  /\ base_cmd = NoCmd
  /\ notifier = "absent"
  /\ toasts = <<>>

EncoderInit ==
  /\ AtRest
  /\ pc = "detect"
  /\ query \in CapabilityResponses
  /\ width = 0
  /\ height = 0

DetectEncoder ==
  /\ pc = "detect"
  /\ codec' = detect_encoder(query)[1]
  /\ preset' = detect_encoder(query)[2]
  /\ pc' = "detected"
  /\ UNCHANGED <<env, ffmpeg, ffprobe, exit, ret, plan, fs, log, notes,
                 toasts, report, video, query, base_cmd>>

EncoderNext == DetectEncoder

EncoderSpec == EncoderInit /\ [][EncoderNext]_vars

ScaleInit ==
  /\ AtRest
  /\ pc = "scale"
  /\ query = NoQuery
  /\ width \in Widths
  /\ height \in Heights

ApplyScaleFilter ==
  /\ pc = "scale"
  /\ scale_filter' = get_scale_filter(width, height)
  /\ pc' = "scaled"
  /\ UNCHANGED <<env, ffmpeg, ffprobe, exit, ret, plan, fs, log, notes,
                 toasts, report, probe, width, height, encoder>>

ScaleNext == ApplyScaleFilter

ScaleSpec == ScaleInit /\ [][ScaleNext]_vars

TypeOK ==
  /\ argGiven \in BOOLEAN /\ inputIsFile \in BOOLEAN
  /\ toolsInstalled \in [{"ffmpeg", "ffprobe"} -> BOOLEAN]
  /\ ffmpeg \in {"unset", "none", "path"}
  /\ ffprobe \in {"unset", "none", "path"}
  /\ pc \in {"main", "compress", "encode", "exists", "getsize",
             "returned", "done"}
  /\ exit \in -1..3
  /\ ret \in {"none", "true", "false"}
  /\ duration_ms \in Durations \cup {0}
  /\ has_audio \in BOOLEAN
  /\ video_bitrate \in Nat
  /\ attempt \in 0..MAX_ATTEMPTS
  /\ out_size \in Sizes \cup {-1}
  /\ fileExists \in BOOLEAN /\ fileSize \in Sizes
  /\ created \in BOOLEAN
  /\ Len(log) <= MAX_ATTEMPTS
  /\ Len(notes) <= 2
  /\ size_mb \in Sizes \cup {-1}
  /\ reported \in Nat \cup {-1}
  /\ undefinedRead \in BOOLEAN
  /\ probe \in {"none", "ok", "tool_error", "malformed", "no_duration",
                "nonpositive", "no_stream", "audio_malformed"}
  /\ width \in Nat /\ height \in Nat
  /\ scale_filter \in {"unset", EvenFilter, FitFilter}
  /\ <<codec, preset>> \in
       {<<"unset", "unset">>} \cup
       {ENCODER_PRIORITY[i] : i \in 1..Len(ENCODER_PRIORITY)}
  /\ query \in CapabilityResponses
  /\ notifier \in Notifiers
  /\ toasts \in Seq({"FileNotFound", "FFmpegNotFound", "Starting",
                     "CouldNotAnalyze", "EncodingFailed", "OutputNotCreated",
                     "Complete", "CannotReduce", "TargetWas8MB"})
  /\ Len(toasts) <= Len(notes)

(***************************************************************************)
(* Derived views of the state.                                             *)
(***************************************************************************)
Returned == pc \in {"returned", "done"}
Last(seq) == seq[Len(seq)]
Measured(i) == log[i].size # -1

(***************************************************************************)
(* C1: the encoder is invoked at most MAX_ATTEMPTS = 3 times in a run; the *)
(* attempt index of every invocation is in 1..3 and grows by exactly 1     *)
(* from one invocation to the next.                                        *)
(***************************************************************************)
C1_AtMostMaxAttempts ==
  /\ Len(log) <= 3
  /\ \A i \in 1..Len(log) :
       /\ log[i].attempt \in 1..3
       /\ i > 1 => log[i].attempt = log[i - 1].attempt + 1

C1_Witness ==
  /\ pc = "done"
  /\ Len(log) = 3
  /\ Last(log).size > TARGET_BYTES

(***************************************************************************)
(* C2: compress_video returns success, and main exits 0 when an argument   *)
(* was given, iff the most recent encode reported success, the output file *)
(* exists and its measured size is <= TARGET_BYTES (equality included);    *)
(* the first attempt measured within the budget is the last invocation.    *)
(***************************************************************************)
C2_SuccessIffFits ==
  /\ Returned /\ ret # "none" =>
       (ret = "true" <=>
          /\ Len(log) > 0
          /\ Last(log).ok
          /\ Last(log).exists = "yes" /\ fileExists
          /\ Measured(Len(log)) /\ Last(log).size <= TARGET_BYTES)
  /\ pc = "done" /\ argGiven => (exit = 0 <=> ret = "true")
  /\ \A i \in 1..Len(log) :
       Measured(i) /\ log[i].size <= TARGET_BYTES =>
         i = Len(log) /\ Returned /\ ret = "true"

C2_Witness ==
  /\ pc = "done"
  /\ exit = 0
  /\ Len(log) = 2
  /\ Last(log).size = TARGET_BYTES

(***************************************************************************)
(* C3 as stated: for every duration d > 0 and both audio flags the initial *)
(* bitrate is >= MIN_VIDEO_BITRATE and strictly less than TARGET_BITS / d. *)
(* The initial bitrate is a multiple of 1000, so bitrate * d is taken as   *)
(* (bitrate / 1000) * duration_ms.                                         *)
(***************************************************************************)
Planned == pc = "encode" /\ attempt = 1

C3_Original ==
  Planned =>
    /\ video_bitrate >= MIN_VIDEO_BITRATE
    /\ (video_bitrate \div 1000) * duration_ms < TARGET_BITS

(***************************************************************************)
(* C3 amended: the initial bitrate is >= MIN_VIDEO_BITRATE, and it is      *)
(* strictly less than TARGET_BITS / d whenever TARGET_BITS / d exceeds     *)
(* MIN_VIDEO_BITRATE (d < 838.8608 s).                                     *)
(***************************************************************************)
C3_InitialBitrateBounds ==
  Planned =>
    /\ video_bitrate >= MIN_VIDEO_BITRATE
    /\ (MIN_VIDEO_BITRATE \div 1000) * duration_ms < TARGET_BITS =>
         (video_bitrate \div 1000) * duration_ms < TARGET_BITS

C3_Witness ==
  /\ Planned
  /\ video_bitrate = MIN_VIDEO_BITRATE
  /\ has_audio
  /\ (MIN_VIDEO_BITRATE \div 1000) * duration_ms < TARGET_BITS

(***************************************************************************)
(* C4: inside the loop the current video_bitrate is >= MIN_VIDEO_BITRATE,  *)
(* and the bitrates of the successive encode invocations of a run are      *)
(* strictly decreasing.                                                    *)
(***************************************************************************)
C4_BitrateFloorAndDecrease ==
  /\ pc \in {"encode", "exists", "getsize"} =>
       video_bitrate >= MIN_VIDEO_BITRATE
  /\ \A i \in 1..Len(log) :
       /\ log[i].bitrate >= MIN_VIDEO_BITRATE
       /\ i > 1 => log[i].bitrate < log[i - 1].bitrate

C4_Witness ==
  /\ Len(log) = 3
  /\ log[3].bitrate = MIN_VIDEO_BITRATE
  /\ log[1].bitrate > log[2].bitrate

(***************************************************************************)
(* C5: on a non-final attempt measured over TARGET_BYTES, the candidate    *)
(* max(MIN_VIDEO_BITRATE, int(bitrate * (TARGET_BYTES / size) * 0.95)) is  *)
(* either strictly smaller than the current bitrate and becomes the        *)
(* bitrate of the next attempt, or the run ends with the "cannot reduce    *)
(* further" failure and no further encode; nothing else happens.           *)
(***************************************************************************)
Candidate(bitrate, size) ==
  WithVal(FlFromInt(bitrate), LAMBDA b :
    WithVal(FlDiv(TARGET_BYTES, size), LAMBDA ratio :
      WithVal(FlDiv(95, 100), LAMBDA margin :
        WithVal(FlMul(ratio, margin), LAMBDA f :
          Max(MIN_VIDEO_BITRATE, FlTrunc(FlMul(b, f)))))))

C5_RetryOrNoProgress ==
  [][ pc = "getsize" /\ fileSize > TARGET_BYTES /\ attempt < MAX_ATTEMPTS =>
        LET c == Candidate(video_bitrate, fileSize)
        IN \/ /\ c < video_bitrate
              /\ video_bitrate' = c
              /\ attempt' = attempt + 1
              /\ pc' = "encode"
              /\ ret' = "none"
           \/ /\ c >= video_bitrate
              /\ pc' = "returned"
              /\ ret' = "false"
              /\ notes' = Append(notes, "CannotReduce")
              /\ Len(log') = Len(log)
              /\ video_bitrate' = video_bitrate ]_vars

C5_Witness ==
  /\ pc = "returned"
  /\ Last(notes) = "CannotReduce"
  /\ Len(log) = 2
  /\ log[2].bitrate = Candidate(log[1].bitrate, log[1].size)

(***************************************************************************)
(* C6: an attempt whose encode reported failure, or reported success with  *)
(* the output file absent, is the last invocation of the run: the run has  *)
(* returned failure and the bitrate of that attempt was not corrected.     *)
(***************************************************************************)
C6_EncodeFailureIsTerminal ==
  \A i \in 1..Len(log) :
    ~log[i].ok \/ log[i].exists = "no" =>
      /\ i = Len(log)
      /\ Returned
      /\ ret = "false"
      /\ video_bitrate = log[i].bitrate
      /\ ~Measured(i)
      /\ pc = "done" => exit = 3

C6_Witness ==
  /\ pc = "done"
  /\ Len(log) = 2
  /\ ~log[2].ok
  /\ Last(notes) = "EncodingFailed"

(***************************************************************************)
(* C7: when the input path is not an existing file, main exits with code 1 *)
(* without looking up a tool, probing, encoding or creating an output      *)
(* file, also when the tools are not installed.                            *)
(***************************************************************************)
C7_MissingInputExitsOne ==
  argGiven /\ ~inputIsFile =>
    /\ pc \in {"main", "done"}
    /\ pc = "done" => exit = 1
    /\ ffmpeg = "unset" /\ ffprobe = "unset"
    /\ duration_ms = 0
    /\ log = <<>>
    /\ ~created

C7_Witness ==
  /\ pc = "done"
  /\ exit = 1
  /\ argGiven /\ ~inputIsFile
  /\ ~toolsInstalled["ffmpeg"] /\ ~toolsInstalled["ffprobe"]

(***************************************************************************)
(* C8: when every external call returns, every run of main ends, with      *)
(* exactly one exit code of 0..3: 0 iff no argument was given or the       *)
(* compression succeeded, 1 iff the input file was not found, 2 iff the    *)
(* input exists and ffmpeg or ffprobe was not located, 3 iff compression   *)
(* was started and ended in one of the terminal errors.                    *)
(***************************************************************************)
TerminalErrors ==
  {"CouldNotAnalyze", "EncodingFailed", "OutputNotCreated", "CannotReduce",
   "TargetWas8MB"}

Started == Len(notes) > 0 /\ notes[1] = "Starting"

ExitClassified ==
  IF pc = "done"
    THEN /\ exit \in 0..3
         /\ exit = 0 <=> ~argGiven \/ ret = "true"
         /\ exit = 1 <=> argGiven /\ ~inputIsFile
         /\ exit = 2 <=> /\ argGiven /\ inputIsFile
                         /\ ~toolsInstalled["ffmpeg"] \/ ~toolsInstalled["ffprobe"]
         /\ exit = 3 <=> Started /\ ret = "false" /\ Last(notes) \in TerminalErrors
         /\ Started /\ ret = "false" <=> Started /\ Last(notes) \in TerminalErrors
    ELSE exit = -1

SixtySecondsWithAudio == Planned /\ duration_ms = 60000 /\ has_audio

C9_Original ==
  SixtySecondsWithAudio =>
    /\ available_bits(duration_ms, has_audio) = 59395522
    /\ video_bitrate = 989000

(***************************************************************************)
(* C9 amended: for a 60 s source with audio the available bits are         *)
(* 59,335,598.08 (integer part 59,335,598) and the initial video bitrate   *)
(* is 988,000 bits/s.                                                      *)
(***************************************************************************)
C9_SixtySecondPlan ==
  SixtySecondsWithAudio =>
    /\ available_bits(duration_ms, has_audio) = 59335598
    /\ video_bitrate = 988000

C9_Witness == SixtySecondsWithAudio /\ video_bitrate > MIN_VIDEO_BITRATE

(***************************************************************************)
(* C10 as stated: whenever the first attempt measures 10 MiB, the new      *)
(* bitrate is floor(bitrate * (8/10) * 0.95), strictly less than the       *)
(* bitrate of the first attempt, and a second encode follows.              *)
(***************************************************************************)
FirstAttemptTenMiB == Len(log) >= 1 /\ log[1].size = 10 * MiB

SecondBitrate == IF Len(log) >= 2 THEN log[2].bitrate ELSE video_bitrate

SecondEncodeFollows ==
  \/ Len(log) = 1 /\ pc = "encode" /\ attempt = 2
  \/ Len(log) >= 2 /\ log[2].attempt = 2

C10_Original ==
  FirstAttemptTenMiB =>
    /\ SecondBitrate = (log[1].bitrate * 76) \div 100
    /\ SecondBitrate < log[1].bitrate
    /\ SecondEncodeFollows

(***************************************************************************)
(* C10 amended: whenever the first attempt measures 10 MiB: if the initial *)
(* bitrate is above MIN_VIDEO_BITRATE, the new bitrate is                  *)
(* max(MIN_VIDEO_BITRATE, floor(bitrate * (8/10) * 0.95)), strictly less   *)
(* than the initial bitrate, and a second encode follows; if the initial   *)
(* bitrate is MIN_VIDEO_BITRATE, the run ends with the "cannot reduce      *)
(* further" failure after that one encode.                                 *)
(***************************************************************************)
C10_TenMiBFirstAttempt ==
  FirstAttemptTenMiB =>
    IF log[1].bitrate > MIN_VIDEO_BITRATE
      THEN /\ SecondBitrate =
                Max(MIN_VIDEO_BITRATE, (log[1].bitrate * 76) \div 100)
           /\ SecondBitrate < log[1].bitrate
           /\ SecondEncodeFollows
      ELSE /\ Len(log) = 1
           /\ Returned
           /\ ret = "false"
           /\ Last(notes) = "CannotReduce"

C10_Witness ==
  /\ FirstAttemptTenMiB
  /\ Len(log) = 2
  /\ log[1].bitrate > MIN_VIDEO_BITRATE
  /\ log[2].bitrate = MIN_VIDEO_BITRATE

(***************************************************************************)
(* C11: a run ends in the BudgetExceeded outcome ("Target was 8 MB")       *)
(* exactly when MAX_ATTEMPTS encodes were invoked, each reported success   *)
(* with the output file present and each measured size was above           *)
(* TARGET_BYTES; on attempt MAX_ATTEMPTS no corrective bitrate is computed *)
(* and NoProgress is never reported, and the size printed in the failure   *)
(* is the one measured on attempt MAX_ATTEMPTS.                            *)
(***************************************************************************)
BudgetExceeded == notes # <<>> /\ Last(notes) = "TargetWas8MB"
NoProgress == notes # <<>> /\ Last(notes) = "CannotReduce"
OverBudget(i) == log[i].ok /\ log[i].exists = "yes"
                 /\ log[i].size > TARGET_BYTES

C11_BudgetExceededIffAllOver ==
  /\ BudgetExceeded <=>
       /\ Len(log) = MAX_ATTEMPTS
       /\ \A i \in 1..Len(log) : OverBudget(i)
  /\ BudgetExceeded =>
       /\ \A k \in 1..Len(notes) : notes[k] # "CannotReduce"
       /\ attempt = MAX_ATTEMPTS
       /\ video_bitrate = log[MAX_ATTEMPTS].bitrate
       /\ size_mb = log[MAX_ATTEMPTS].size
       /\ reported = format_2f(log[MAX_ATTEMPTS].size)

C11_Witness ==
  /\ pc = "done"
  /\ BudgetExceeded
  /\ log[1].size = 10 * MiB
  /\ log[MAX_ATTEMPTS].size = 9 * MiB
  /\ reported = 900

(***************************************************************************)
(* C14: whenever a run reports NoProgress or BudgetExceeded, the size      *)
(* measured on the latest attempt of that run is defined and is the one    *)
(* printed; size_mb is never read before a measurement has assigned it.    *)
(***************************************************************************)
C14_ReportedSizeIsMeasured ==
  /\ ~undefinedRead
  /\ (NoProgress \/ BudgetExceeded) =>
       /\ Len(log) > 0
       /\ Measured(Len(log))
       /\ size_mb # -1
       /\ size_mb = Last(log).size
       /\ reported = format_2f(Last(log).size)

C14_Witness ==
  /\ pc = "done"
  /\ NoProgress
  /\ Len(log) = 2
  /\ log[1].size = 9 * MiB
  /\ log[2].size = TARGET_BYTES + 1
  /\ reported = 800

(***************************************************************************)
(* C15: NoProgress is reported exactly when a non-final attempt is over    *)
(* budget while the bitrate it used equals MIN_VIDEO_BITRATE; an           *)
(* over-budget non-final attempt at a bitrate above the floor leads to a   *)
(* retry; at most one encode of a run uses MIN_VIDEO_BITRATE.              *)
(***************************************************************************)
NonFinalOver(i) == i < MAX_ATTEMPTS /\ OverBudget(i)
Retried(i) == Len(log) > i \/ (pc = "encode" /\ attempt = i + 1)

C15_NoProgressOnlyAtFloor ==
  /\ NoProgress =>
       /\ Len(log) > 0
       /\ NonFinalOver(Len(log))
       /\ Last(log).bitrate = MIN_VIDEO_BITRATE
  /\ \A i \in 1..Len(log) :
       /\ (NonFinalOver(i) /\ log[i].bitrate = MIN_VIDEO_BITRATE) =>
            NoProgress /\ i = Len(log)
       /\ (NonFinalOver(i) /\ log[i].bitrate > MIN_VIDEO_BITRATE) =>
            Retried(i) /\ (NoProgress => i < Len(log))
  /\ Cardinality({ i \in 1..Len(log) :
                     log[i].bitrate = MIN_VIDEO_BITRATE }) <= 1

C15_Witness ==
  /\ pc = "done"
  /\ NoProgress
  /\ Len(log) = 2
  /\ log[1].bitrate > MIN_VIDEO_BITRATE
  /\ log[2].bitrate = MIN_VIDEO_BITRATE


(***************************************************************************)
(* C12: if the metadata probe fails (tool error, malformed output, absent  *)
(* or non-positive duration, or any other cause), compress_video returns   *)
(* False before encoder selection and bitrate planning: no encode is       *)
(* invoked in that run and main exits with code 3.                         *)
(***************************************************************************)
ProbeFailed == probe \notin {"none", "ok"}

C12_ProbeFailureEndsRun ==
  ProbeFailed =>
    /\ log = <<>>
    /\ codec = "unset" /\ preset = "unset" /\ query = NoQuery
    /\ video_bitrate = 0 /\ scale_filter = "unset" /\ base_cmd = NoCmd
    /\ attempt = 0
    /\ notes = <<"Starting", "CouldNotAnalyze">>
    /\ ret = "false"
    /\ pc \in {"returned", "done"}
    /\ pc = "done" => exit = 3

C12_Witness ==
  /\ pc = "done"
  /\ probe = "nonpositive"
  /\ exit = 3
  /\ log = <<>>

(***************************************************************************)
(* C18: detect_encoder is total: it returns the first pair of              *)
(* ENCODER_PRIORITY whose codec name occurs in the capability query's      *)
(* output, and (libx265, veryfast) when none occurs or the query raises;   *)
(* the returned pair is always a member of ENCODER_PRIORITY.               *)
(***************************************************************************)
Hits == { i \in 1..Len(ENCODER_PRIORITY) :
            ENCODER_PRIORITY[i][1] \in query.listed }
MinOf(S) == CHOOSE x \in S : \A y \in S : x <= y

C18_DetectEncoderFirstListed ==
  pc = "detected" =>
    /\ \E i \in 1..Len(ENCODER_PRIORITY) :
         <<codec, preset>> = ENCODER_PRIORITY[i]
    /\ (~query.raised /\ Hits # {}) =>
         <<codec, preset>> = ENCODER_PRIORITY[MinOf(Hits)]
    /\ (query.raised \/ Hits = {}) =>
         <<codec, preset>> = <<"libx265", "veryfast">>

C18_Witness ==
  /\ pc = "detected"
  /\ query.listed = {"hevc_qsv", "libx265", "aac"}
  /\ <<codec, preset>> = <<"hevc_qsv", "medium">>

(***************************************************************************)
(* C17: for all positive source dimensions the scaled output never exceeds *)
(* the source in either dimension; within 1920x1080 each output dimension  *)
(* is the source dimension rounded down to an even value (1919x1079 gives  *)
(* 1918x1078); otherwise the output fits in 1920x1080 with both dimensions *)
(* even.                                                                   *)
(***************************************************************************)
Output == scale_output(scale_filter, width, height)
RoundDownEven(n) == n - (n % 2)

C17_ScalingNeverExceedsSource ==
  pc = "scaled" =>
    /\ Output[1] <= width /\ Output[2] <= height
    /\ (width <= 1920 /\ height <= 1080) =>
         Output = <<RoundDownEven(width), RoundDownEven(height)>>
    /\ ~(width <= 1920 /\ height <= 1080) =>
         /\ Output[1] <= 1920 /\ Output[2] <= 1080
         /\ Output[1] % 2 = 0 /\ Output[2] % 2 = 0

C17_Witness ==
  /\ pc = "scaled"
  /\ width = 1919 /\ height = 1079
  /\ Output = <<1918, 1078>>

(***************************************************************************)
(* C13: across the encode invocations of one run the input path, output    *)
(* path, scale filter, codec, preset and audio settings (aac at 96k with   *)
(* audio, audio disabled without) are identical; only the video bitrate    *)
(* and the values derived from it differ, with maxrate = floor(1.5 *       *)
(* bitrate) and bufsize = 2 * bitrate in every invocation.                 *)
(***************************************************************************)
C13_CommandsDifferOnlyInBitrate ==
  \A i \in 1..Len(log) :
    /\ log[i].cmd.base = log[1].cmd.base
    /\ log[i].cmd.output = log[1].cmd.output
    /\ log[i].cmd.base.input = "input_path"
    /\ log[i].cmd.base.vf = scale_filter
    /\ log[i].cmd.base.cv = codec
    /\ log[i].cmd.base.preset = preset
    /\ log[i].cmd.base.audio =
         (IF has_audio THEN <<"-c:a", "aac", "-b:a", "96k">> ELSE <<"-an">>)
    /\ log[i].cmd.bv = log[i].bitrate
    /\ 2 * log[i].cmd.maxrate <= 3 * log[i].bitrate
    /\ 3 * log[i].bitrate < 2 * log[i].cmd.maxrate + 2
    /\ log[i].cmd.bufsize = 2 * log[i].bitrate

C13_Witness ==
  /\ pc = "done"
  /\ Len(log) = 3
  /\ has_audio
  /\ log[1].bitrate > log[2].bitrate
  /\ log[2].bitrate > log[3].bitrate
  /\ log[3].cmd.base.cv = "hevc_qsv"
  /\ log[3].cmd.base.vf = FitFilter
  /\ log[3].cmd.maxrate # log[1].cmd.maxrate

(***************************************************************************)
(* C16: notification is non-interfering.  The encode invocations of a run  *)
(* (their number, commands and bitrates) and its exit code are the values  *)
(* of functions of the argument, the file system and the external tools'   *)
(* responses alone, whatever the notifier does (works, absent, raises): so *)
(* two runs that differ only in the notifier perform the same encodes and  *)
(* exit alike.  The bitrate of an encode is compared with its expected     *)
(* value where the encode is about to be invoked.  The notifier decides    *)
(* only which toasts appear.  Every run that starts compression makes      *)
(* exactly one terminal notify call, success or one failure kind, after    *)
(* the start notification.                                                 *)
(***************************************************************************)
ExpectedBitrate(i) ==
  IF i = 1 THEN calculate_target_bitrate(duration_ms, has_audio)
           ELSE new_bitrate(log[i - 1].bitrate, log[i - 1].size)
ExpectedCmd(i) ==
  make_cmd(make_base_cmd(get_scale_filter(width, height),
                         detect_encoder(query)[1], detect_encoder(query)[2],
                         has_audio),
           log[i].bitrate)
Continues(j, next) ==
  /\ OverBudget(j)
  /\ j < MAX_ATTEMPTS
  /\ next < log[j].bitrate
ExpectedExit ==
  IF ~argGiven THEN 0
  ELSE IF ~inputIsFile THEN 1
  ELSE IF ~toolsInstalled["ffmpeg"] \/ ~toolsInstalled["ffprobe"] THEN 2
  ELSE IF probe # "ok" THEN 3
  ELSE IF /\ Len(log) > 0
          /\ Last(log).ok /\ Last(log).exists = "yes"
          /\ Measured(Len(log)) /\ Last(log).size <= TARGET_BYTES
         THEN 0
  ELSE 3

C16_NotificationNonInterfering ==
  /\ pc = "encode" =>
       /\ Len(log) = attempt - 1
       /\ video_bitrate = ExpectedBitrate(attempt)
  /\ (log # <<>> /\ pc # "encode") =>
       /\ Len(log) = attempt
       /\ Last(log).bitrate = video_bitrate
  /\ \A i \in 1..Len(log) :
       /\ log[i].cmd = ExpectedCmd(i)
       /\ i > 1 => Continues(i - 1, log[i].bitrate)
  /\ pc = "done" =>
       /\ exit = ExpectedExit
       /\ (Started /\ probe = "ok") =>
            /\ Len(log) >= 1
            /\ OverBudget(Len(log)) =>
                 ~Continues(Len(log), ExpectedBitrate(Len(log) + 1))
       /\ ~Started => log = <<>>
  /\ Started =>
       IF pc \in {"returned", "done"}
         THEN /\ Len(notes) = 2
              /\ notes[2] \in {"Complete"} \cup TerminalErrors
         ELSE Len(notes) = 1
  /\ toasts = IF notifier = "works" THEN notes ELSE <<>>

C16_Witness ==
  /\ pc = "done"
  /\ notifier = "raises"
  /\ Len(log) = 2
  /\ log[1].size = 10 * MiB
  /\ exit = 0
  /\ notes = <<"Starting", "Complete">>
  /\ toasts = <<>>

====
